---- MODULE Spec2Model ----
(***************************************************************************)
(* Decoding and encoding of the Azure chat completion response.            *)
(*                                                                         *)
(* The merged CreateChatCompletionResponse is decoded by a hand-written    *)
(* serde visitor (visit_map) and encoded by a derived Serialize with       *)
(* #[serde(flatten)]; the choice elements and every nested value are       *)
(* decoded and encoded by derived implementations.  A JSON document is an  *)
(* order-preserving tree (an object is a sequence of <<key, value>>        *)
(* entries, so a key may occur twice), a decoded value is a record, and    *)
(* the visitor is a state machine that consumes one key per step.          *)
(***************************************************************************)
EXTENDS Integers, Sequences, FiniteSets, TLC

VARIABLES
    input,   \* the document handed to the first decode
    doc,     \* the document being decoded in the current pass
    pass,    \* 1: decoding input; 2: decoding the encoding of the first record
    pc,      \* "idle", "refused", "start", "scan", "done"
    pos,     \* number of top-level entries consumed by map.next_key()
    acc,     \* the nine Option accumulators of visit_map
    result,  \* the outcome of the current decode: Pending, Ok(record) or Err
    first,   \* the record returned by pass 1, once it was encoded
    request, \* the request handed to Chat::create
    sent,    \* the HTTP requests issued by the client, in order
    returned \* what Chat::create has returned, if it has

call == <<request, sent, returned>>
vars == <<input, doc, pass, pc, pos, acc, result, first, request, sent, returned>>

(***************************************************************************)
(* JSON values.  A number literal without fraction or exponent is kept in  *)
(* two 16-bit limbs (value = hi * 2^16 + lo) so that literals beyond the   *)
(* u32 range can be written; a literal with a fraction or an exponent is a *)
(* "float".                                                                *)
(***************************************************************************)
U32Bits == 32
Limb == 2 ^ (U32Bits \div 2)

JNull == [k |-> "null"]
JBool(b) == [k |-> "bool", b |-> b]
JStr(s) == [k |-> "str", s |-> s]
JNum(h, l) == [k |-> "num", hi |-> h, lo |-> l]
JInt(n) == JNum(n \div Limb, n % Limb)
JFloat(n) == [k |-> "float", f |-> n]
JArr(a) == [k |-> "arr", a |-> a]
JObj(o) == [k |-> "obj", o |-> o]

Range(s) == {s[i] : i \in DOMAIN s}
Keys(entries) == {entries[i][1] : i \in DOMAIN entries}
Occurrences(entries, key) == {i \in DOMAIN entries : entries[i][1] = key}

(***************************************************************************)
(* Rust's Option and Result.                                               *)
(***************************************************************************)
None == [some |-> FALSE]
Some(x) == [some |-> TRUE, v |-> x]

Ok(x) == [ok |-> TRUE, val |-> x]
Err(kind, what) == [ok |-> FALSE, err |-> [kind |-> kind, what |-> what]]
Pending == [pending |-> TRUE]

(***************************************************************************)
(* Type descriptors: one per Rust type of the response, with the fields in *)
(* declaration order.                                                      *)
(***************************************************************************)
TString == [t |-> "string"]
TBool == [t |-> "bool"]
TU32 == [t |-> "u32"]
TU8 == [t |-> "u8"]
TF32 == [t |-> "f32"]
TUrl == [t |-> "url"]
TOption(of) == [t |-> "option", of |-> of]
TVec(of) == [t |-> "seq", of |-> of]
TEnum(name, variants) == [t |-> "enum", name |-> name, variants |-> variants]
TStruct(name, fields) == [t |-> "struct", name |-> name, fields |-> fields]
TUntagged(name, variants) == [t |-> "untagged", name |-> name, variants |-> variants]
Field(name, ty) == [name |-> name, ty |-> ty, flatten |-> FALSE]
Flatten(name, ty) == [name |-> name, ty |-> ty, flatten |-> TRUE]
Variant(name, ty) == [name |-> name, ty |-> ty]

Role == TEnum("Role", <<"system", "user", "assistant", "tool", "function">>)

FunctionCall ==
    TStruct("FunctionCall", <<Field("name", TString), Field("arguments", TString)>>)

CompletionUsage ==
    TStruct("CompletionUsage",
        <<Field("prompt_tokens", TU32),
          Field("completion_tokens", TU32),
          Field("total_tokens", TU32)>>)

ChatCompletionToolType == TEnum("ChatCompletionToolType", <<"function">>)

ChatCompletionMessageToolCall ==
    TStruct("ChatCompletionMessageToolCall",
        <<Field("id", TString),
          Field("type", ChatCompletionToolType),
          Field("function", FunctionCall)>>)

ChatCompletionResponseMessage ==
    TStruct("ChatCompletionResponseMessage",
        <<Field("content", TOption(TString)),
          Field("refusal", TOption(TString)),
          Field("tool_calls", TOption(TVec(ChatCompletionMessageToolCall))),
          Field("role", Role),
          Field("function_call", TOption(FunctionCall))>>)

ServiceTierResponse == TEnum("ServiceTierResponse", <<"scale", "default">>)

\* A variant of FinishReason with one more literal, cancelled.
FinishReasonOpen ==
    TEnum("FinishReason",
        <<"stop", "length", "tool_calls", "content_filter", "function_call", "cancelled">>)

FinishReason ==
    TEnum("FinishReason",
        <<"stop", "length", "tool_calls", "content_filter", "function_call">>)

TopLogprobs ==
    TStruct("TopLogprobs",
        <<Field("token", TString),
          Field("logprob", TF32),
          Field("bytes", TOption(TVec(TU8)))>>)

ChatCompletionTokenLogprob ==
    TStruct("ChatCompletionTokenLogprob",
        <<Field("token", TString),
          Field("logprob", TF32),
          Field("bytes", TOption(TVec(TU8))),
          Field("top_logprobs", TVec(TopLogprobs))>>)

ChatChoiceLogprobs ==
    TStruct("ChatChoiceLogprobs",
        <<Field("content", TOption(TVec(ChatCompletionTokenLogprob))),
          Field("refusal", TOption(TVec(ChatCompletionTokenLogprob)))>>)

Severity == TEnum("Severity", <<"safe", "low", "medium", "high">>)

SeverityResult ==
    TStruct("SeverityResult",
        <<Field("filtered", TBool), Field("severity", TOption(Severity))>>)

DetectedResult ==
    TStruct("DetectedResult", <<Field("filtered", TBool), Field("detected", TBool)>>)

Citation ==
    TStruct("Citation", <<Field("lowercase", TUrl), Field("license", TString)>>)

DetectedWithCitationResult ==
    TStruct("DetectedWithCitationResult",
        <<Flatten("detected_result", DetectedResult),
          Field("citation", TOption(Citation))>>)

BaseResults ==
    TStruct("BaseResults",
        <<Field("sexual", TOption(SeverityResult)),
          Field("violence", TOption(SeverityResult)),
          Field("hate", TOption(SeverityResult)),
          Field("self_harm", TOption(SeverityResult)),
          Field("profanity", TOption(DetectedResult))>>)

PromptResults ==
    TStruct("PromptResults",
        <<Flatten("results", BaseResults),
          Field("jailbreak", TOption(DetectedResult))>>)

ChoiceResults ==
    TStruct("ChoiceResults",
        <<Flatten("results", BaseResults),
          Field("protected_material_text", TOption(DetectedResult)),
          Field("protected_material_code", TOption(DetectedWithCitationResult))>>)

Error == TStruct("Error", <<Field("code", TString), Field("message", TString)>>)

ContentFilteringResults(T) ==
    TUntagged("ContentFilteringResults", <<Variant("Ok", T), Variant("Err", Error)>>)

\* async_openai::types::ChatChoice
VanillaChatChoice ==
    TStruct("ChatChoice",
        <<Field("index", TU32),
          Field("message", ChatCompletionResponseMessage),
          Field("finish_reason", TOption(FinishReason)),
          Field("logprobs", TOption(ChatChoiceLogprobs)),
          Field("content_filter_results",
                TOption(ContentFilteringResults(ChoiceResults)))>>)

\* async_openai::types::CreateChatCompletionResponse
VanillaCreateChatCompletionResponse ==
    TStruct("CreateChatCompletionResponse",
        <<Field("id", TString),
          Field("choices", TVec(VanillaChatChoice)),
          Field("created", TU32),
          Field("model", TString),
          Field("service_tier", TOption(ServiceTierResponse)),
          Field("system_fingerprint", TOption(TString)),
          Field("object", TString),
          Field("usage", TOption(CompletionUsage))>>)

\* crate::types::content_filtering of the Azure crate
ContentFilterResults == ContentFilteringResults(ChoiceResults)
PromptFilterResults == ContentFilteringResults(PromptResults)

\* crate::types::chat::ChatChoice
ChatChoice ==
    TStruct("ChatChoice",
        <<Field("content_filter_results", TOption(ContentFilterResults)),
          Flatten("vanilla", VanillaChatChoice)>>)

\* crate::types::chat::CreateChatCompletionResponse
CreateChatCompletionResponse ==
    TStruct("CreateChatCompletionResponse",
        <<Field("choices", TVec(ChatChoice)),
          Field("prompt_filter_results", TOption(TVec(PromptFilterResults))),
          Flatten("vanilla", VanillaCreateChatCompletionResponse)>>)

(***************************************************************************)
(* Derived Deserialize.  De(ty, v) decodes the JSON value v as the type    *)
(* ty: Ok(value) or the first error met.                                   *)
(***************************************************************************)
FieldNames(ty) == {ty.fields[i].name : i \in DOMAIN ty.fields}
OwnFields(ty) == SelectSeq(ty.fields, LAMBDA f : ~f.flatten)
FlattenFields(ty) == SelectSeq(ty.fields, LAMBDA f : f.flatten)
OwnNames(ty) == {f.name : f \in Range(OwnFields(ty))}
HasFlatten(ty) == FlattenFields(ty) # <<>>
FieldTy(ty, name) == (CHOOSE f \in Range(ty.fields) : f.name = name).ty

\* A variant of IsU32: every number is taken, whatever its size or sign.
IsU32Unchecked(v) == v.hi \in Int /\ v.lo \in Int

IsU32(v) == v.hi \in 0..(Limb - 1) /\ v.lo \in 0..(Limb - 1)
IsU8(v) == v.hi = 0 /\ v.lo \in 0..255

\* Url::parse followed by the Url's own text: an empty path becomes "/".
UrlTable ==
    [s \in {"https://example.com", "https://example.com/", "https://example.com/a"} |->
        IF s = "https://example.com" THEN "https://example.com/" ELSE s]
IsUrl(s) == s \in DOMAIN UrlTable
UrlParse(s) == UrlTable[s]

RECURSIVE De(_, _)
RECURSIVE DeSeq(_, _, _, _)
RECURSIVE DeUntagged(_, _, _)
RECURSIVE VisitMap(_, _, _, _, _)
RECURSIVE VisitSeq(_, _, _, _)
RECURSIVE MissingFields(_, _, _)
RECURSIVE DeFlattened(_, _, _, _)

\* A unit-variant enum: the variant's name as a string, or the map form
\* {"variant": null}.
DeEnum(ty, v) ==
    IF v.k = "str"
    THEN IF v.s \in Range(ty.variants)
         THEN Ok(v.s)
         ELSE Err("unknown_variant", v.s)
    ELSE IF v.k = "obj"
    THEN IF Len(v.o) # 1
         THEN Err("invalid_value", ty.name)
         ELSE IF v.o[1][1] \notin Range(ty.variants)
         THEN Err("unknown_variant", v.o[1][1])
         ELSE IF v.o[1][2].k # "null"
         THEN Err("invalid_type", "unit variant")
         ELSE Ok(v.o[1][1])
    ELSE Err("invalid_type", ty.name)

\* Vec<T>: the elements in order, stopping at the first that fails.
DeSeq(of, elems, i, out) ==
    IF i > Len(elems)
    THEN Ok(out)
    ELSE LET r == De(of, elems[i])
         IN  IF r.ok THEN DeSeq(of, elems, i + 1, Append(out, r.val)) ELSE r

\* #[serde(untagged)]: the variants are tried in declaration order.
DeUntagged(ty, v, i) ==
    IF i > Len(ty.variants)
    THEN Err("untagged_no_match", ty.name)
    ELSE LET r == De(ty.variants[i].ty, v)
         IN  IF r.ok
             THEN Ok([variant |-> ty.variants[i].name, value |-> r.val])
             ELSE DeUntagged(ty, v, i + 1)

\* After the key loop: a field never seen is None when it is an Option and
\* a missing_field error otherwise, in declaration order.
MissingFields(own, seen, i) ==
    IF i > Len(own)
    THEN Ok(seen)
    ELSE LET f == own[i]
         IN  IF seen[f.name].some
             THEN MissingFields(own, seen, i + 1)
             ELSE IF f.ty.t = "option"
             THEN MissingFields(own, [seen EXCEPT ![f.name] = Some(None)], i + 1)
             ELSE Err("missing_field", f.name)

\* The #[serde(flatten)] fields are decoded from the entries the key loop
\* collected.
DeFlattened(flat, collected, i, out) ==
    IF i > Len(flat)
    THEN Ok(out)
    ELSE LET r == VisitMap(flat[i].ty, collected, 1,
                           [n \in OwnNames(flat[i].ty) |-> None], <<>>)
         IN  IF r.ok
             THEN DeFlattened(flat, collected, i + 1,
                              [out EXCEPT ![flat[i].name] = r.val])
             ELSE r

\* A variant of VisitMap: an entry read into a field of the struct is also
\* handed to its flattened fields.
VisitMapSharing(ty, entries, i, seen, collected) ==
    IF i > Len(entries)
    THEN LET m == MissingFields(OwnFields(ty), seen, 1)
         IN  IF ~m.ok
             THEN m
             ELSE DeFlattened(FlattenFields(ty), collected, 1,
                      [n \in FieldNames(ty) |->
                          IF n \in OwnNames(ty) THEN m.val[n].v ELSE None])
    ELSE LET key == entries[i][1]
         IN  IF key \in OwnNames(ty)
             THEN IF seen[key].some
                  THEN Err("duplicate_field", key)
                  ELSE LET r == De(FieldTy(ty, key), entries[i][2])
                       IN  IF r.ok
                           THEN VisitMap(ty, entries, i + 1,
                                         [seen EXCEPT ![key] = Some(r.val)],
                                         Append(collected, entries[i]))
                           ELSE r
             ELSE VisitMap(ty, entries, i + 1, seen, Append(collected, entries[i]))

\* A variant of VisitMap as under #[serde(deny_unknown_fields)]: a struct
\* without flattened fields rejects a key of none of its fields.
VisitMapDenying(ty, entries, i, seen, collected) ==
    IF i > Len(entries)
    THEN LET m == MissingFields(OwnFields(ty), seen, 1)
         IN  IF ~m.ok
             THEN m
             ELSE DeFlattened(FlattenFields(ty), collected, 1,
                      [n \in FieldNames(ty) |->
                          IF n \in OwnNames(ty) THEN m.val[n].v ELSE None])
    ELSE LET key == entries[i][1]
         IN  IF key \in OwnNames(ty)
             THEN IF seen[key].some
                  THEN Err("duplicate_field", key)
                  ELSE LET r == De(FieldTy(ty, key), entries[i][2])
                       IN  IF r.ok
                           THEN VisitMap(ty, entries, i + 1,
                                         [seen EXCEPT ![key] = Some(r.val)],
                                         collected)
                           ELSE r
             ELSE IF HasFlatten(ty)
             THEN VisitMap(ty, entries, i + 1, seen, Append(collected, entries[i]))
             ELSE Err("unknown_field", key)

\* The derived visit_map: a known key seen twice is a duplicate_field; a key
\* of no field of the struct is collected (for the flattened fields) or
\* ignored.
VisitMap(ty, entries, i, seen, collected) ==
    IF i > Len(entries)
    THEN LET m == MissingFields(OwnFields(ty), seen, 1)
         IN  IF ~m.ok
             THEN m
             ELSE DeFlattened(FlattenFields(ty), collected, 1,
                      [n \in FieldNames(ty) |->
                          IF n \in OwnNames(ty) THEN m.val[n].v ELSE None])
    ELSE LET key == entries[i][1]
         IN  IF key \in OwnNames(ty)
             THEN IF seen[key].some
                  THEN Err("duplicate_field", key)
                  ELSE LET r == De(FieldTy(ty, key), entries[i][2])
                       IN  IF r.ok
                           THEN VisitMap(ty, entries, i + 1,
                                         [seen EXCEPT ![key] = Some(r.val)],
                                         collected)
                           ELSE r
             ELSE VisitMap(ty, entries, i + 1, seen, Append(collected, entries[i]))

\* The derived visit_seq of a struct without flattened fields: one element
\* per field, in declaration order.
VisitSeq(ty, elems, i, out) ==
    IF i > Len(ty.fields)
    THEN IF Len(elems) > Len(ty.fields)
         THEN Err("invalid_length", ty.name)
         ELSE Ok(out)
    ELSE IF i > Len(elems)
    THEN Err("invalid_length", ty.name)
    ELSE LET r == De(ty.fields[i].ty, elems[i])
         IN  IF r.ok
             THEN VisitSeq(ty, elems, i + 1, [out EXCEPT ![ty.fields[i].name] = r.val])
             ELSE r

DeStruct(ty, v) ==
    IF v.k = "obj"
    THEN VisitMap(ty, v.o, 1, [n \in OwnNames(ty) |-> None], <<>>)
    ELSE IF v.k = "arr" /\ ~HasFlatten(ty)
    THEN VisitSeq(ty, v.a, 1, [n \in FieldNames(ty) |-> None])
    ELSE Err("invalid_type", ty.name)

De(ty, v) ==
    CASE ty.t = "string" ->
            IF v.k = "str" THEN Ok(v.s) ELSE Err("invalid_type", "string")
      [] ty.t = "bool" ->
            IF v.k = "bool" THEN Ok(v.b) ELSE Err("invalid_type", "bool")
      [] ty.t = "u32" ->
            IF v.k # "num" THEN Err("invalid_type", "u32")
            ELSE IF IsU32(v) THEN Ok([hi |-> v.hi, lo |-> v.lo])
            ELSE Err("invalid_value", "u32")
      [] ty.t = "u8" ->
            IF v.k # "num" THEN Err("invalid_type", "u8")
            ELSE IF IsU8(v) THEN Ok(v.lo)
            ELSE Err("invalid_value", "u8")
      [] ty.t = "f32" ->
            IF v.k = "float" THEN Ok(v.f)
            ELSE IF v.k = "num" THEN Ok(v.hi * Limb + v.lo)
            ELSE Err("invalid_type", "f32")
      [] ty.t = "url" ->
            IF v.k # "str" THEN Err("invalid_type", "url")
            ELSE IF IsUrl(v.s) THEN Ok(UrlParse(v.s))
            ELSE Err("custom", "url")
      [] ty.t = "option" ->
            IF v.k = "null"
            THEN Ok(None)
            ELSE LET r == De(ty.of, v) IN IF r.ok THEN Ok(Some(r.val)) ELSE r
      [] ty.t = "seq" ->
            IF v.k = "arr" THEN DeSeq(ty.of, v.a, 1, <<>>) ELSE Err("invalid_type", "seq")
      [] ty.t = "enum" -> DeEnum(ty, v)
      [] ty.t = "untagged" -> DeUntagged(ty, v, 1)
      [] ty.t = "struct" -> DeStruct(ty, v)

(***************************************************************************)
(* Derived Serialize.  Every field is written, in declaration order; a     *)
(* None is written as null; the fields of a flattened struct are written   *)
(* into the enclosing object.                                              *)
(***************************************************************************)
RECURSIVE Ser(_, _)
RECURSIVE SerFields(_, _, _)

SerFields(ty, x, i) ==
    IF i > Len(ty.fields)
    THEN <<>>
    ELSE LET f == ty.fields[i]
         IN  (IF f.flatten
              THEN SerFields(f.ty, x[f.name], 1)
              ELSE << <<f.name, Ser(f.ty, x[f.name])>> >>)
             \o SerFields(ty, x, i + 1)

SerUntagged(ty, x) ==
    Ser((CHOOSE w \in Range(ty.variants) : w.name = x.variant).ty, x.value)

Ser(ty, x) ==
    CASE ty.t = "string" -> JStr(x)
      [] ty.t = "bool" -> JBool(x)
      [] ty.t = "u32" -> JNum(x.hi, x.lo)
      [] ty.t = "u8" -> JNum(0, x)
      [] ty.t = "f32" -> JFloat(x)
      [] ty.t = "url" -> JStr(x)
      [] ty.t = "option" -> IF x.some THEN Ser(ty.of, x.v) ELSE JNull
      [] ty.t = "seq" -> JArr([i \in DOMAIN x |-> Ser(ty.of, x[i])])
      [] ty.t = "enum" -> JStr(x)
      [] ty.t = "untagged" -> SerUntagged(ty, x)
      [] ty.t = "struct" -> JObj(SerFields(ty, x, 1))

(***************************************************************************)
(* The hand-written Deserialize of the merged CreateChatCompletionResponse.*)
(***************************************************************************)
\* enum Field, and the FIELDS handed to deserialize_struct
FIELDS ==
    <<"id", "choices", "created", "model", "service_tier", "system_fingerprint",
      "object", "usage", "prompt_filter_results">>

\* A variant of NextValueTy: object is read as the literal chat.completion.
NextValueTyObjectValidated ==
    [id |-> TString,
     choices |-> TVec(ChatChoice),
     created |-> TU32,
     model |-> TString,
     service_tier |-> ServiceTierResponse,
     system_fingerprint |-> TString,
     object |-> TEnum("object", <<"chat.completion">>),
     usage |-> CompletionUsage,
     prompt_filter_results |-> TVec(PromptFilterResults)]

\* The type map.next_value() decodes in each arm: the accumulator is an
\* Option of the type of the record's field it is moved into.
NextValueTy ==
    [id |-> TString,
     choices |-> TVec(ChatChoice),
     created |-> TU32,
     model |-> TString,
     service_tier |-> ServiceTierResponse,
     system_fingerprint |-> TString,
     object |-> TString,
     usage |-> CompletionUsage,
     prompt_filter_results |-> TVec(PromptFilterResults)]

\* A variant of NoneSeen: the prompt_filter_results accumulator starts as an
\* empty list instead of None.
NoneSeenPromptDefaulted ==
    [n \in Range(FIELDS) |-> IF n = "prompt_filter_results" THEN Some(<<>>) ELSE None]

\* let mut id = None; ... let mut prompt_filter_results = None;
NoneSeen == [n \in Range(FIELDS) |-> None]

\* A variant of Arm: no duplicate check, a later occurrence overwrites.
ArmOverwriting(a, name, value) ==
    LET r == De(NextValueTy[name], value)
    IN  IF r.ok THEN Ok([a EXCEPT ![name] = Some(r.val)]) ELSE r

\* A variant of Arm: the value is decoded before the accumulator is looked
\* at, so a bad second value is reported in place of the duplicate.
ArmDecodingFirst(a, name, value) ==
    LET r == De(NextValueTy[name], value)
    IN  IF ~r.ok THEN r
        ELSE IF a[name].some THEN Err("duplicate_field", name)
        ELSE Ok([a EXCEPT ![name] = Some(r.val)])

\* One arm of the match: the duplicate check, then next_value()?.
Arm(a, name, value) ==
    IF a[name].some
    THEN Err("duplicate_field", name)
    ELSE LET r == De(NextValueTy[name], value)
         IN  IF r.ok THEN Ok([a EXCEPT ![name] = Some(r.val)]) ELSE r

\* map.next_key()?: the key is decoded as a Field, which has no catch-all
\* variant.
NextKey(a, key, value) ==
    IF key \in Range(FIELDS) THEN Arm(a, key, value) ELSE Err("unknown_variant", key)

\* Variants of VanillaChoices: the first choice is skipped; the choices are
\* collected in reverse.
VanillaChoicesSkipping(choices) ==
    [i \in 1..(Len(choices) - 1) |-> choices[i + 1].vanilla]
VanillaChoicesReversed(choices) ==
    [i \in DOMAIN choices |-> choices[Len(choices) + 1 - i].vanilla]

\* choices.into_iter().map(|choice| choice.vanilla).collect()
VanillaChoices(choices) == [i \in DOMAIN choices |-> choices[i].vanilla]

\* The record literal returned by visit_map.
Record(a) ==
    [choices |-> a.choices.v,
     prompt_filter_results |-> a.prompt_filter_results,
     vanilla |->
        [id |-> a.id.v,
         choices |-> VanillaChoices(a.choices.v),
         created |-> a.created.v,
         model |-> a.model.v,
         service_tier |-> a.service_tier,
         system_fingerprint |-> a.system_fingerprint,
         object |-> a.object.v,
         usage |-> a.usage]]

\* A variant of Finish: a missing object is defaulted instead of reported.
FinishObjectDefaulted(a) ==
    IF ~a.id.some THEN Err("missing_field", "id")
    ELSE IF ~a.choices.some THEN Err("missing_field", "choices")
    ELSE IF ~a.created.some THEN Err("missing_field", "created")
    ELSE IF ~a.model.some THEN Err("missing_field", "model")
    ELSE IF ~a.object.some THEN Ok(Record([a EXCEPT !.object = Some("chat.completion")]))
    ELSE Ok(Record(a))

\* The required-field checks after the loop, in their order, then the record.
Finish(a) ==
    IF ~a.id.some THEN Err("missing_field", "id")
    ELSE IF ~a.choices.some THEN Err("missing_field", "choices")
    ELSE IF ~a.created.some THEN Err("missing_field", "created")
    ELSE IF ~a.model.some THEN Err("missing_field", "model")
    ELSE IF ~a.object.some THEN Err("missing_field", "object")
    ELSE Ok(Record(a))

\* visit_map as a function of the entries, from entry i on.
RECURSIVE Scan(_, _, _)
Scan(entries, i, a) ==
    IF i > Len(entries)
    THEN Finish(a)
    ELSE LET r == NextKey(a, entries[i][1], entries[i][2])
         IN  IF r.ok THEN Scan(entries, i + 1, r.val) ELSE r

\* V implements visit_map alone: anything but an object is an invalid type.
Decode(d) ==
    IF d.k = "obj"
    THEN Scan(d.o, 1, NoneSeen)
    ELSE Err("invalid_type", "struct CreateChatCompletionResponse")

\* A variant of Encode: the base response, and the choices' extension data
\* in a top-level array beside it.
EncodeHoisting(r) ==
    JObj(Ser(VanillaCreateChatCompletionResponse, r.vanilla).o
         \o << <<"content_filter_results",
                 JArr([i \in DOMAIN r.choices |->
                        Ser(TOption(ContentFilterResults),
                            r.choices[i].content_filter_results)])>> >>)

\* The derived Serialize of the merged record.
Encode(r) == Ser(CreateChatCompletionResponse, r)

(***************************************************************************)
(* The documents decoded: the response of the concrete scenario with every *)
(* optional field present, changed by at most two edits.                   *)
(***************************************************************************)
MaxChoices == 2

Message(text) ==
    JObj(<< <<"role", JStr("assistant")>>, <<"content", JStr(text)>> >>)

SeverityReport ==
    JObj(<< <<"hate", JObj(<< <<"filtered", JBool(FALSE)>>,
                              <<"severity", JStr("safe")>> >>)>> >>)
ErrorReport ==
    JObj(<< <<"code", JStr("e1")>>, <<"message", JStr("backend down")>> >>)

ChoiceElems ==
    { JObj(<< <<"index", JInt(0)>>, <<"message", Message("hi")>>,
              <<"content_filter_results", SeverityReport>> >>),
      JObj(<< <<"index", JInt(1)>>, <<"message", Message("yo")>>,
              <<"finish_reason", JStr("stop")>> >>),
      JObj(<< <<"content_filter_results", ErrorReport>>,
              <<"message", Message("no")>>, <<"index", JInt(0)>> >>),
      JObj(<< <<"index", JInt(1)>>, <<"message", Message("ok")>>,
              <<"finish_reason", JStr("length")>>, <<"logprobs", JNull>>,
              <<"content_filter_results", JNull>> >>) }

ChoiceArrays ==
    {JArr(a) : a \in UNION {[1..n -> ChoiceElems] : n \in 0..MaxChoices}}

\* A choice of the scenario with further entries after its index and message.
ChoiceWith(extra) ==
    JObj(<< <<"index", JInt(0)>>, <<"message", Message("hi")>> >> \o extra)

\* Values of content_filter_results that are not JSON objects, and an object
\* whose category has the wrong type.
OddFilterValues ==
    {JInt(3), JStr("safe"), JBool(TRUE), JArr(<<>>), JArr(<<JInt(1), JInt(2)>>),
     JArr(<<JStr("e1"), JStr("backend down")>>),
     JObj(<< <<"hate", JInt(5)>> >>)}

FinishReasonValues ==
    {JStr("stop"), JStr("length"), JStr("tool_calls"), JStr("content_filter"),
     JStr("function_call"), JStr("cancelled"), JStr("STOP"), JNull, JInt(1),
     JObj(<< <<"stop", JNull>> >>)}

UnknownChoiceKeys == {"beta_choice"}

\* Values of a choice's index: the ends of the u32 range, and values outside
\* it or of another kind.
IndexValues ==
    {JNum(Limb - 1, Limb - 1), JNum(Limb, 0), JInt(-1), JFloat(1), JStr("0"), JNull}

ChoiceIndexed(v) == JObj(<< <<"index", v>>, <<"message", Message("hi")>> >>)

SingleChoiceArrays ==
    {JArr(<<ChoiceIndexed(v)>>) : v \in IndexValues} \cup
    {JArr(<<ChoiceWith(<< <<"content_filter_results", v>> >>)>>) : v \in OddFilterValues}
    \cup {JArr(<<ChoiceWith(<< <<"finish_reason", v>> >>)>>) : v \in FinishReasonValues}
    \cup {JArr(<<ChoiceWith(<< <<"content_filter_results", SeverityReport>>,
                               <<"content_filter_results", ErrorReport>> >>)>>)}
    \cup {JArr(<<ChoiceWith(<< <<k, JBool(TRUE)>>,
                               <<"content_filter_results", SeverityReport>> >>)>>) :
             k \in UnknownChoiceKeys}

UsageValue ==
    JObj(<< <<"prompt_tokens", JInt(1)>>, <<"completion_tokens", JInt(2)>>,
            <<"total_tokens", JInt(3)>> >>)

PromptReport ==
    JObj(<< <<"jailbreak", JObj(<< <<"filtered", JBool(FALSE)>>,
                                   <<"detected", JBool(FALSE)>> >>)>> >>)

Canonical ==
    << <<"id", JStr("c1")>>,
       <<"object", JStr("chat.completion")>>,
       <<"created", JInt(1700000000)>>,
       <<"model", JStr("m")>>,
       <<"choices", JArr(<< JObj(<< <<"index", JInt(0)>>, <<"message", Message("hi")>>,
                                    <<"content_filter_results", SeverityReport>> >>) >>)>>,
       <<"usage", UsageValue>>,
       <<"system_fingerprint", JStr("fp")>>,
       <<"service_tier", JStr("default")>>,
       <<"prompt_filter_results", JArr(<<PromptReport>>)>> >>

\* The document of the concrete scenario: the required fields only.
Scenario == SubSeq(Canonical, 1, 5)

CanonicalValue(key) ==
    IF key \in Keys(Canonical)
    THEN Canonical[CHOOSE i \in DOMAIN Canonical : Canonical[i][1] = key][2]
    ELSE JBool(TRUE)

\* Other values a key may carry.
Alternatives(key) ==
    CASE key = "id" -> {JNull, JInt(7)}
      [] key = "choices" -> ChoiceArrays \cup SingleChoiceArrays \cup {JNull, JObj(<<>>)}
      [] key = "created" ->
            {JInt(0), JNum(Limb - 1, Limb - 1), JNum(Limb, 0), JInt(-1), JFloat(1),
             JStr("1700000000"), JNull}
      [] key = "model" -> {JNull, JBool(FALSE)}
      [] key = "service_tier" ->
            {JNull, JStr("scale"), JStr("gold"), JObj(<< <<"scale", JNull>> >>)}
      [] key = "system_fingerprint" -> {JNull, JInt(1)}
      [] key = "object" -> {JStr("other"), JInt(1), JNull}
      [] key = "usage" -> {JNull, JArr(<<JInt(1), JInt(2), JInt(3)>>), JObj(<<>>)}
      [] key = "prompt_filter_results" -> {JNull, JArr(<<>>), JArr(<<ErrorReport, PromptReport>>)}

UnknownKeys == {"beta_flag"}

Drops == {[op |-> "drop", key |-> key] : key \in Range(FIELDS)}
Replacements ==
    UNION {{[op |-> "replace", key |-> key, value |-> v] : v \in Alternatives(key)} :
           key \in Range(FIELDS)}
Inserts ==
    UNION {{[op |-> "insert", front |-> f, key |-> key, value |-> v] :
              v \in {CanonicalValue(key), JNull}, f \in BOOLEAN} :
           key \in Range(FIELDS) \cup UnknownKeys}
Keep == [op |-> "keep"]

Apply(e, entries) ==
    CASE e.op = "keep" -> entries
      [] e.op = "drop" -> SelectSeq(entries, LAMBDA x : x[1] # e.key)
      [] e.op = "replace" ->
            [i \in DOMAIN entries |->
                IF entries[i][1] = e.key THEN <<e.key, e.value>> ELSE entries[i]]
      [] e.op = "insert" ->
            IF e.front THEN << <<e.key, e.value>> >> \o entries
            ELSE Append(entries, <<e.key, e.value>>)

\* The requests handed to create: their stream field.
Requests == {[stream |-> s] : s \in {None, Some(TRUE), Some(FALSE)}}

Documents ==
    {JObj(Apply(e2, Apply(e1, Canonical))) :
        e1 \in {Keep} \cup Drops \cup Replacements \cup Inserts,
        e2 \in {Keep} \cup Drops \cup Inserts}
    \cup {JObj(Scenario), JArr(<<JStr("c1")>>), JNull}

(***************************************************************************)
(* The decode as a state machine: one key per step.                        *)
(***************************************************************************)
Init ==
    /\ input \in Documents
    /\ doc = input
    /\ pass = 1
    /\ pc = "idle"
    /\ pos = 0
    /\ acc = NoneSeen
    /\ result = Pending
    /\ first = None
    /\ request \in Requests
    /\ sent = <<>>
    /\ returned = Pending

\* A variant of Create without the guard: the request is always posted.
CreateUnguarded ==
    /\ pc = "idle"
    /\ sent' = Append(sent, [method |-> "POST", path |-> "/chat/completions",
                             body |-> request])
    /\ pc' = "start"
    /\ UNCHANGED <<input, doc, pass, pos, acc, result, first, request, returned>>

\* Chat::create: a request with stream = Some(true) is refused before
\* anything is sent; any other is posted to /chat/completions, and the
\* response body is decoded as the merged CreateChatCompletionResponse.
Create ==
    /\ pc = "idle"
    /\ IF request.stream.some /\ request.stream.v
       THEN /\ returned' = Err("InvalidArgument",
                               "When stream is true, use Chat::create_stream")
            /\ pc' = "refused"
            /\ UNCHANGED sent
       ELSE /\ sent' = Append(sent, [method |-> "POST", path |-> "/chat/completions",
                                     body |-> request])
            /\ pc' = "start"
            /\ UNCHANGED returned
    /\ UNCHANGED <<input, doc, pass, pos, acc, result, first, request>>

\* deserializer.deserialize_struct("CreateChatCompletionResponse", FIELDS, V)
Deserialize ==
    /\ pc = "start"
    /\ IF doc.k = "obj"
       THEN pc' = "scan" /\ UNCHANGED result
       ELSE /\ pc' = "done"
            /\ result' = Err("invalid_type", "struct CreateChatCompletionResponse")
    /\ UNCHANGED <<input, doc, pass, pos, acc, first>>
    /\ UNCHANGED call

\* while let Some(key) = map.next_key()? { match key { ... } }: the next key
\* is name.
AtKey(name) ==
    /\ pc = "scan"
    /\ pos < Len(doc.o)
    /\ doc.o[pos + 1][1] = name

\* A variant of Take: a failing arm is skipped and the scan goes on.
TakeContinuing(r) ==
    /\ pos' = pos + 1
    /\ IF r.ok
       THEN acc' = r.val /\ UNCHANGED <<pc, result>>
       ELSE UNCHANGED <<pc, result, acc>>
    /\ UNCHANGED <<input, doc, pass, first>>
    /\ UNCHANGED call

\* The arm either fills its accumulator or returns its error.
Take(r) ==
    /\ pos' = pos + 1
    /\ IF r.ok
       THEN acc' = r.val /\ UNCHANGED <<pc, result>>
       ELSE pc' = "done" /\ result' = r /\ UNCHANGED acc
    /\ UNCHANGED <<input, doc, pass, first>>
    /\ UNCHANGED call

FieldId ==
    /\ AtKey("id")
    /\ Take(Arm(acc, "id", doc.o[pos + 1][2]))

FieldChoices ==
    /\ AtKey("choices")
    /\ Take(Arm(acc, "choices", doc.o[pos + 1][2]))

FieldCreated ==
    /\ AtKey("created")
    /\ Take(Arm(acc, "created", doc.o[pos + 1][2]))

FieldModel ==
    /\ AtKey("model")
    /\ Take(Arm(acc, "model", doc.o[pos + 1][2]))

FieldServiceTier ==
    /\ AtKey("service_tier")
    /\ Take(Arm(acc, "service_tier", doc.o[pos + 1][2]))

FieldSystemFingerprint ==
    /\ AtKey("system_fingerprint")
    /\ Take(Arm(acc, "system_fingerprint", doc.o[pos + 1][2]))

FieldObject ==
    /\ AtKey("object")
    /\ Take(Arm(acc, "object", doc.o[pos + 1][2]))

FieldUsage ==
    /\ AtKey("usage")
    /\ Take(Arm(acc, "usage", doc.o[pos + 1][2]))

FieldPromptFilterResults ==
    /\ AtKey("prompt_filter_results")
    /\ Take(Arm(acc, "prompt_filter_results", doc.o[pos + 1][2]))

\* map.next_key()? fails: the key is no variant of Field.
FieldUnknown ==
    /\ pc = "scan"
    /\ pos < Len(doc.o)
    /\ doc.o[pos + 1][1] \notin Range(FIELDS)
    /\ pos' = pos + 1
    /\ pc' = "done"
    /\ result' = Err("unknown_variant", doc.o[pos + 1][1])
    /\ UNCHANGED <<input, doc, pass, acc, first>>
    /\ UNCHANGED call

\* map.next_key()? returns None: the required-field checks and the record.
EndOfMap ==
    /\ pc = "scan"
    /\ pos = Len(doc.o)
    /\ pc' = "done"
    /\ result' = Finish(acc)
    /\ UNCHANGED <<input, doc, pass, pos, acc, first>>
    /\ UNCHANGED call

\* self.client.post("/chat/completions", request).await is the value of
\* create: what the call gives is what create returns.
PostReturns ==
    /\ pc = "done"
    /\ pass = 1
    /\ "pending" \in DOMAIN returned
    /\ returned' = result
    /\ UNCHANGED <<input, doc, pass, pc, pos, acc, result, first, request, sent>>

\* The record returned is serialized, and the bytes are decoded again.
Reencode ==
    /\ pc = "done"
    /\ pass = 1
    /\ "pending" \notin DOMAIN returned
    /\ result.ok
    /\ first' = Some(result.val)
    /\ doc' = Encode(result.val)
    /\ pass' = 2
    /\ pc' = "start"
    /\ pos' = 0
    /\ acc' = NoneSeen
    /\ result' = Pending
    /\ UNCHANGED input
    /\ UNCHANGED call

Next ==
    \/ Create
    \/ Deserialize
    \/ FieldId
    \/ FieldChoices
    \/ FieldCreated
    \/ FieldModel
    \/ FieldServiceTier
    \/ FieldSystemFingerprint
    \/ FieldObject
    \/ FieldUsage
    \/ FieldPromptFilterResults
    \/ FieldUnknown
    \/ EndOfMap
    \/ PostReturns
    \/ Reencode

Spec == Init /\ [][Next]_vars

\* The state machine computes Decode.
DecodeAgrees == pc = "done" => result = Decode(doc)

(***************************************************************************)
(* Properties.                                                             *)
(***************************************************************************)
Decoded == pass = 1 /\ pc = "done"
Redecoded == pass = 2 /\ pc = "done"

Required == {"id", "choices", "created", "model", "object"}
SimplyOptional == {"system_fingerprint", "service_tier", "usage", "prompt_filter_results"}

EntryValue(entries, key) ==
    entries[CHOOSE i \in Occurrences(entries, key) :
                \A j \in Occurrences(entries, key) : i <= j][2]
DropKey(d, key) == JObj(SelectSeq(d.o, LAMBDA x : x[1] # key))
Recognized(d) == JObj(SelectSeq(d.o, LAMBDA x : x[1] \in Range(FIELDS)))
Repeated(entries, j) == \E i \in 1..(j - 1) : entries[i][1] = entries[j][1]

\* Every key is a recognized one, none occurs twice, and every value is of
\* its field's type.
WellFormedEntries(entries) ==
    /\ Keys(entries) \subseteq Range(FIELDS)
    /\ \A key \in Keys(entries) : Cardinality(Occurrences(entries, key)) = 1
    /\ \A i \in DOMAIN entries : De(NextValueTy[entries[i][1]], entries[i][2]).ok

\* The elements of the document's choices array.
InputChoices == EntryValue(input.o, "choices").a
CarriesExtension(elem) ==
    \E i \in DOMAIN elem.o :
        elem.o[i][1] = "content_filter_results" /\ elem.o[i][2].k # "null"
HasExtensionKey(elem) == "content_filter_results" \in Keys(elem.o)

\* C1: round trip: encoding the record a decode returned and decoding the
\* bytes again succeeds and gives the same record.
C1_RoundTrip == Redecoded => result = Ok(first.v)

\* C2: encode writes every field name once at its nesting level: one
\* `choices` key (and one key for each other field) at the top level, one
\* `content_filter_results` key in each choice, and no wrapper key.
C2_EncodeSingleOccurrence ==
    (pass = 2 /\ pc = "start") =>
        /\ \A key \in Range(FIELDS) : Cardinality(Occurrences(doc.o, key)) = 1
        /\ Keys(doc.o) = Range(FIELDS)
        /\ \A i \in DOMAIN EntryValue(doc.o, "choices").a :
              LET choice == EntryValue(doc.o, "choices").a[i]
              IN  /\ Cardinality(Occurrences(choice.o, "content_filter_results")) = 1
                  /\ "vanilla" \notin Keys(choice.o)

\* C3: a document with the required fields and an unrecognized top-level key
\* decodes to the record of the document without that key, and the key is
\* not in the encoding of that record.
C3_UnknownTopLevelIgnored ==
    (/\ Decoded
     /\ input.k = "obj"
     /\ ~(Keys(input.o) \subseteq Range(FIELDS))
     /\ Decode(Recognized(input)).ok)
    => /\ result = Decode(Recognized(input))
       /\ Keys(Encode(result.val).o) \subseteq Range(FIELDS)

\* C4: a simply-optional top-level key carried with the value null decodes
\* successfully, to the record of the same document with the key omitted.
C4_NullIsAbsent ==
    (Decoded /\ input.k = "obj") =>
        \A key \in SimplyOptional :
            (/\ Cardinality(Occurrences(input.o, key)) = 1
             /\ EntryValue(input.o, key) = JNull
             /\ Decode(DropKey(input, key)).ok)
            => result = Decode(DropKey(input, key))

\* C5: a document in which a recognized top-level key occurs twice never
\* decodes; when the scan reaches the second occurrence (every entry before
\* it is a recognized key with a value of its type), the decode fails with
\* duplicate_field naming exactly that key.
C5_DuplicateField ==
    (Decoded /\ input.k = "obj") =>
        \A j \in DOMAIN input.o :
            (input.o[j][1] \in Range(FIELDS) /\ Repeated(input.o, j)) =>
                /\ ~result.ok
                /\ (/\ \A i \in 1..(j - 1) : ~Repeated(input.o, i)
                    /\ WellFormedEntries(SubSeq(input.o, 1, j - 1)))
                   => result = Err("duplicate_field", input.o[j][1])

C5_Witness ==
    /\ Decoded
    /\ input.k = "obj"
    /\ Cardinality(Occurrences(input.o, "prompt_filter_results")) = 2
    /\ input.o[Len(input.o)][1] = "prompt_filter_results"
    /\ WellFormedEntries(SubSeq(input.o, 1, Len(input.o) - 1))
    /\ result = Err("duplicate_field", "prompt_filter_results")

\* C6: decode succeeds only if id, choices, created, model and object were
\* all seen; an otherwise valid document that omits one of them fails with
\* missing_field naming it, and omitting optional fields alone is no failure.
C6_RequiredFields ==
    (Decoded /\ input.k = "obj") =>
        /\ result.ok => Required \subseteq Keys(input.o)
        /\ WellFormedEntries(input.o) =>
              /\ \A key \in Required :
                    Required \ Keys(input.o) = {key} => result = Err("missing_field", key)
              /\ Required \subseteq Keys(input.o) => result.ok

C6_Witness ==
    /\ Decoded
    /\ input.k = "obj"
    /\ WellFormedEntries(input.o)
    /\ Required \ Keys(input.o) = {"object"}
    /\ SimplyOptional \ Keys(input.o) = {"usage"}
    /\ result = Err("missing_field", "object")

\* C7: every record returned has as many merged choices, and as many base
\* choices, as the document's choices array has elements; when no element
\* carries extension data, every choice's extension slot is unset.
C7_Cardinality ==
    (Decoded /\ result.ok) =>
        /\ Len(result.val.choices) = Len(InputChoices)
        /\ Len(result.val.vanilla.choices) = Len(InputChoices)
        /\ (\A i \in DOMAIN InputChoices : ~CarriesExtension(InputChoices[i]))
           => \A i \in DOMAIN result.val.choices :
                 ~result.val.choices[i].content_filter_results.some

C7_Witness ==
    /\ Decoded
    /\ result.ok
    /\ Len(InputChoices) = MaxChoices
    /\ \A i \in DOMAIN InputChoices : ~CarriesExtension(InputChoices[i])
    /\ \E i \in DOMAIN InputChoices : HasExtensionKey(InputChoices[i])
    /\ Len(result.val.vanilla.choices) = MaxChoices

\* C8: the i-th merged choice is built from the i-th element of the
\* document's choices array (its index, its message, its extension data), and
\* the i-th base choice is the base part of the i-th merged choice.
C8_PositionalMerge ==
    (Decoded /\ result.ok) =>
        /\ DOMAIN result.val.choices = DOMAIN InputChoices
        /\ DOMAIN result.val.vanilla.choices = DOMAIN InputChoices
        /\ \A i \in DOMAIN InputChoices :
              LET elem == InputChoices[i]
                  merged == result.val.choices[i]
              IN  /\ merged = De(ChatChoice, elem).val
                  /\ Ser(TU32, merged.vanilla.index) = EntryValue(elem.o, "index")
                  /\ Ser(TOption(TString), merged.vanilla.message.content)
                        = EntryValue(EntryValue(elem.o, "message").o, "content")
                  /\ merged.content_filter_results.some = CarriesExtension(elem)
                  /\ result.val.vanilla.choices[i] = merged.vanilla

C8_Witness ==
    /\ Decoded
    /\ result.ok
    /\ Len(InputChoices) = MaxChoices
    /\ InputChoices[1] # InputChoices[MaxChoices]
    /\ result.val.choices[1].vanilla.index # result.val.choices[MaxChoices].vanilla.index
    /\ result.val.vanilla.choices[MaxChoices] = result.val.choices[MaxChoices].vanilla

\* C9: when extension data is present and the number m of choices carrying
\* it differs from the number n of choices, decode fails with a cardinality
\* mismatch carrying n and m.
C9_CardinalityMismatch ==
    (/\ Decoded
     /\ input.k = "obj"
     /\ WellFormedEntries(input.o)
     /\ Required \subseteq Keys(input.o))
    => LET n == Len(InputChoices)
           m == Cardinality({i \in DOMAIN InputChoices : CarriesExtension(InputChoices[i])})
       IN  (m > 0 /\ m # n) => result = Err("cardinality_mismatch", <<n, m>>)

\* C10: a document with the required fields and no extension field (no
\* prompt_filter_results key, no content_filter_results key in any choice)
\* decodes, with prompt_filter_results and every choice's
\* content_filter_results absent.
C10_NoExtension ==
    (/\ Decoded
     /\ input.k = "obj"
     /\ WellFormedEntries(input.o)
     /\ Required \subseteq Keys(input.o)
     /\ "prompt_filter_results" \notin Keys(input.o)
     /\ \A i \in DOMAIN InputChoices : ~HasExtensionKey(InputChoices[i]))
    => /\ result.ok
       /\ ~result.val.prompt_filter_results.some
       /\ \A i \in DOMAIN result.val.choices :
             ~result.val.choices[i].content_filter_results.some

C10_Witness ==
    /\ Decoded
    /\ result.ok
    /\ WellFormedEntries(input.o)
    /\ "prompt_filter_results" \notin Keys(input.o)
    /\ Len(InputChoices) = MaxChoices
    /\ \A i \in DOMAIN InputChoices : ~HasExtensionKey(InputChoices[i])
    /\ ~result.val.prompt_filter_results.some
    /\ ~result.val.choices[MaxChoices].content_filter_results.some

\* The value a choice element gives for content_filter_results.
ExtensionValue(elem) == EntryValue(elem.o, "content_filter_results")

\* An error report: an object with a string code and a string message.
ErrorShaped(v) ==
    /\ v.k = "obj"
    /\ Keys(v.o) = {"code", "message"}
    /\ \A i \in DOMAIN v.o : v.o[i][2].k = "str"

\* A severity/detection report: an object with at least one category of
\* ChoiceResults, every category being of its type.
ReportShaped(v) ==
    /\ v.k = "obj"
    /\ Keys(v.o) \cap (FieldNames(BaseResults) \cup OwnNames(ChoiceResults)) # {}
    /\ De(ChoiceResults, v).ok

\* C11: the filtering outcome is resolved by shape, the report first and the
\* error second: a severity/detection report decodes to the Ok variant, and
\* an object {code, message} decodes to the Err variant carrying that code
\* and that message.
C11_StructuralUnion ==
    (Decoded /\ result.ok) =>
        \A i \in DOMAIN InputChoices :
            LET elem == InputChoices[i]
                slot == result.val.choices[i].content_filter_results
            IN  CarriesExtension(elem) =>
                  LET v == ExtensionValue(elem)
                      r == De(ContentFilteringResults(ChoiceResults), v)
                  IN  /\ slot.some
                      /\ r.ok
                      /\ slot.v = r.val
                      /\ ReportShaped(v) =>
                            /\ r.val.variant = "Ok"
                            /\ r.val.value = De(ChoiceResults, v).val
                      /\ ErrorShaped(v) =>
                            /\ r.val.variant = "Err"
                            /\ Some(JStr(r.val.value.code)) = Some(EntryValue(v.o, "code"))
                            /\ Some(JStr(r.val.value.message)) = Some(EntryValue(v.o, "message"))

\* A content_filter_results value of neither shape: not a JSON object, or an
\* object that is neither a report nor an error report.
Unshaped(v) ==
    \/ v.k \in {"num", "float", "str", "bool", "arr"}
    \/ v.k = "obj" /\ ~De(ChoiceResults, v).ok /\ ~ErrorShaped(v)

\* The document is well formed but for its choices, which is one array.
OnlyChoicesInDoubt ==
    /\ input.k = "obj"
    /\ Cardinality(Occurrences(input.o, "choices")) = 1
    /\ EntryValue(input.o, "choices").k = "arr"
    /\ \A i \in DOMAIN InputChoices : InputChoices[i].k = "obj"
    /\ WellFormedEntries(DropKey(input, "choices").o)
    /\ Required \subseteq Keys(input.o)

\* C12: a content_filter_results value of neither shape (a number, a string,
\* a boolean, an array) fails the whole decode with the error of the untagged
\* union, no variant having matched; it is decoded into neither variant.
C12_UnsupportedShape ==
    (/\ Decoded
     /\ OnlyChoicesInDoubt
     /\ \E i \in DOMAIN InputChoices :
            /\ HasExtensionKey(InputChoices[i])
            /\ Unshaped(ExtensionValue(InputChoices[i])))
    => /\ result = Err("untagged_no_match", "ContentFilteringResults")
       /\ \A i \in DOMAIN InputChoices :
             (HasExtensionKey(InputChoices[i]) /\ Unshaped(ExtensionValue(InputChoices[i])))
             => ~De(ContentFilteringResults(ChoiceResults), ExtensionValue(InputChoices[i])).ok

\* C13: in a decoded record the index of the i-th merged choice (counting
\* from 0) is i; a document whose choice index disagrees with its position
\* is not decoded.
C13_IndexIsPosition ==
    (Decoded /\ result.ok) =>
        \A i \in DOMAIN result.val.choices :
            Ser(TU32, result.val.choices[i].vanilla.index) = JInt(i - 1)

\* The literals of finish_reason.
FinishLiterals == {"stop", "length", "tool_calls", "content_filter", "function_call"}

\* The forms of a choice's finish_reason: the key absent, null, one of the
\* literals as a string, or one of the literals as the only key of an object
\* whose value is null.
FinishAbsent(elem) ==
    \/ "finish_reason" \notin Keys(elem.o)
    \/ EntryValue(elem.o, "finish_reason").k = "null"
FinishLiteral(elem) ==
    /\ "finish_reason" \in Keys(elem.o)
    /\ EntryValue(elem.o, "finish_reason").k = "str"
    /\ EntryValue(elem.o, "finish_reason").s \in FinishLiterals
FinishKeyed(elem) ==
    /\ "finish_reason" \in Keys(elem.o)
    /\ EntryValue(elem.o, "finish_reason").k = "obj"
    /\ \E l \in FinishLiterals :
          EntryValue(elem.o, "finish_reason").o = << <<l, JNull>> >>

\* The document is well formed but for the finish_reason of its choices.
OnlyFinishReasonInDoubt ==
    /\ OnlyChoicesInDoubt
    /\ \A i \in DOMAIN InputChoices :
          /\ Cardinality(Occurrences(InputChoices[i].o, "finish_reason")) <= 1
          /\ De(ChatChoice, DropKey(InputChoices[i], "finish_reason")).ok

\* The i-th choice object of the first choices array written by encode.
EncodedChoice(i) == EntryValue(Encode(result.val).o, "choices").a[i]

\* What decode keeps and encode writes for every accepted finish_reason.
FinishReasonKept ==
    \A i \in DOMAIN InputChoices :
        LET elem == InputChoices[i]
            kept == result.val.choices[i].vanilla.finish_reason
        IN  /\ FinishAbsent(elem) => ~kept.some
            /\ FinishLiteral(elem) =>
                  /\ kept = Some(EntryValue(elem.o, "finish_reason").s)
                  /\ EntryValue(EncodedChoice(i).o, "finish_reason")
                        = EntryValue(elem.o, "finish_reason")
            /\ FinishKeyed(elem) =>
                  /\ kept = Some(EntryValue(elem.o, "finish_reason").o[1][1])
                  /\ EntryValue(EncodedChoice(i).o, "finish_reason")
                        = JStr(EntryValue(elem.o, "finish_reason").o[1][1])

Encoded == pass = 2 /\ pc = "start"

\* C15: encode writes each choice's content_filter_results inside that
\* choice's own object in the choices array, and never as a top-level key or
\* as a top-level array beside choices; the document of the scenario (one
\* choice, hate = {filtered: false, severity: safe}) decodes to one choice
\* whose extension slot holds that severity report.
C15_ExtensionPlacement ==
    /\ Encoded =>
          LET written == EntryValue(doc.o, "choices").a
          IN  /\ "content_filter_results" \notin Keys(doc.o)
              /\ \A j \in DOMAIN doc.o :
                    doc.o[j][2].k = "arr" =>
                        doc.o[j][1] \in {"choices", "prompt_filter_results"}
              /\ DOMAIN written = DOMAIN first.v.choices
              /\ \A i \in DOMAIN written :
                    /\ HasExtensionKey(written[i])
                    /\ ExtensionValue(written[i])
                          = Ser(TOption(ContentFilterResults),
                                first.v.choices[i].content_filter_results)
                    /\ first.v.choices[i].content_filter_results.some
                          => CarriesExtension(written[i])
    /\ (Decoded /\ input = JObj(Scenario)) =>
          /\ result.ok
          /\ Len(result.val.choices) = 1
          /\ LET slot == result.val.choices[1].content_filter_results
             IN  /\ slot.some
                 /\ slot.v.variant = "Ok"
                 /\ slot.v.value.results.hate
                       = Some([filtered |-> FALSE, severity |-> Some("safe")])
                 /\ \A f \in FieldNames(BaseResults) \ {"hate"} :
                       ~slot.v.value.results[f].some
                 /\ ~slot.v.value.protected_material_text.some
                 /\ ~slot.v.value.protected_material_code.some

C15_Witness ==
    /\ Encoded
    /\ input = JObj(Scenario)
    /\ Len(first.v.choices) = 1
    /\ first.v.choices[1].content_filter_results.some
    /\ CarriesExtension(EntryValue(doc.o, "choices").a[1])
    /\ EntryValue(ExtensionValue(EntryValue(doc.o, "choices").a[1]).o, "hate")
          = EntryValue(SeverityReport.o, "hate")

\* The document decoded by the derived Deserialize of the base response.
BaseDecoded == De(VanillaCreateChatCompletionResponse, input)

\* C16: the hand-written visitor and the derived decoder of the base
\* response accept and reject the same documents, report the absence of a
\* required field alike, treat unknown top-level keys alike, and on
\* acceptance give equal base fields (id, created, model, object,
\* service_tier, system_fingerprint, usage, and each choice's index, message,
\* finish_reason and logprobs).
C16_DecoderEquivalence ==
    Decoded =>
        /\ result.ok <=> BaseDecoded.ok
        /\ (~BaseDecoded.ok /\ BaseDecoded.err.kind = "missing_field")
              => result = BaseDecoded
        /\ (result.ok /\ BaseDecoded.ok) =>
              LET merged == result.val.vanilla
                  base == BaseDecoded.val
              IN  /\ \A f \in {"id", "created", "model", "object", "service_tier",
                               "system_fingerprint", "usage"} :
                        merged[f] = base[f]
                  /\ DOMAIN merged.choices = DOMAIN base.choices
                  /\ \A i \in DOMAIN merged.choices :
                        \A f \in {"index", "message", "finish_reason", "logprobs"} :
                            merged.choices[i][f] = base.choices[i][f]

\* The key occurs twice, its first value is null, and the entries before its
\* second occurrence are otherwise well formed.
NullThenAgain(key) ==
    /\ Cardinality(Occurrences(input.o, key)) = 2
    /\ EntryValue(input.o, key).k = "null"
    /\ LET j == CHOOSE j \in Occurrences(input.o, key) :
                    \A i \in Occurrences(input.o, key) : i <= j
       IN  WellFormedEntries(
               SelectSeq(SubSeq(input.o, 1, j - 1), LAMBDA x : x[1] # key))

\* The record's field for an optional top-level key.
OptionalSlot(r, key) ==
    IF key = "prompt_filter_results" THEN r.prompt_filter_results ELSE r.vanilla[key]

\* C17: a null value counts as an occurrence of its key: an optional
\* top-level key given first as null and then again fails with a duplicate
\* field error for that key, while a single null gives the absent value.
C17_NullObserved ==
    (Decoded /\ input.k = "obj") =>
        \A key \in SimplyOptional :
            /\ NullThenAgain(key) => result = Err("duplicate_field", key)
            /\ (/\ Cardinality(Occurrences(input.o, key)) = 1
                /\ EntryValue(input.o, key).k = "null"
                /\ WellFormedEntries(DropKey(input, key).o)
                /\ Required \subseteq Keys(input.o))
               => /\ result.ok
                  /\ ~OptionalSlot(result.val, key).some

\* The keys of a choice object that the merged ChatChoice has a field for.
KnownChoiceKeys == OwnNames(ChatChoice) \cup FieldNames(VanillaChatChoice)
StripChoice(elem) == JObj(SelectSeq(elem.o, LAMBDA x : x[1] \in KnownChoiceKeys))

\* C18: a key of a choice object that is no field of the choice is ignored:
\* the choice decodes as it does without the key, and the key is in no
\* choice object written by encode.
C18_UnknownChoiceKeyIgnored ==
    (Decoded /\ OnlyChoicesInDoubt) =>
        /\ result.ok <=> \A i \in DOMAIN InputChoices :
                            De(ChatChoice, StripChoice(InputChoices[i])).ok
        /\ result.ok =>
              /\ \A i \in DOMAIN InputChoices :
                    result.val.choices[i] = De(ChatChoice, StripChoice(InputChoices[i])).val
              /\ \A j \in Occurrences(Encode(result.val).o, "choices") :
                    \A i \in DOMAIN InputChoices :
                        Keys(Encode(result.val).o[j][2].a[i].o) \subseteq KnownChoiceKeys

C18_Witness ==
    /\ Decoded
    /\ OnlyChoicesInDoubt
    /\ result.ok
    /\ Len(InputChoices) = 1
    /\ Keys(InputChoices[1].o) \cap UnknownChoiceKeys # {}
    /\ result.val.choices[1].content_filter_results.some
    /\ Keys(EncodedChoice(1).o) \cap UnknownChoiceKeys = {}

\* The document is well formed but for its object, which occurs once.
OnlyObjectInDoubt ==
    /\ input.k = "obj"
    /\ Cardinality(Occurrences(input.o, "object")) = 1
    /\ WellFormedEntries(DropKey(input, "object").o)
    /\ Required \subseteq Keys(input.o)

\* C19: object is required but not validated: any string is accepted and
\* kept unchanged in the record, and a value that is not a string is
\* rejected.
C19_ObjectAnyString ==
    (Decoded /\ OnlyObjectInDoubt) =>
        LET v == EntryValue(input.o, "object")
        IN  /\ v.k = "str" => (result.ok /\ result.val.vanilla.object = v.s)
            /\ v.k # "str" => result = Err("invalid_type", "string")

C19_Witness ==
    /\ Decoded
    /\ OnlyObjectInDoubt
    /\ EntryValue(input.o, "object") = JStr("other")
    /\ result.ok
    /\ result.val.vanilla.object = "other"

\* The steps a decode has left at most: the call, one per entry not yet
\* read, and the end of the map.
Remaining ==
    CASE pc = "idle" -> (IF doc.k = "obj" THEN Len(doc.o) ELSE 0) + 3
      [] pc = "refused" -> 0
      [] pc = "start" -> (IF doc.k = "obj" THEN Len(doc.o) ELSE 0) + 2
      [] pc = "scan" -> Len(doc.o) - pos + 1
      [] pc = "done" -> 0

\* The guards of the steps of a decode: the call, the arm of the next key
\* (an arm always either fills its accumulator or returns its error), the
\* failure of next_key on a key of no variant, and the end of the map.
CanStep ==
    \/ pc = "idle"
    \/ pc = "start"
    \/ \E name \in Range(FIELDS) : AtKey(name)
    \/ pc = "scan" /\ pos < Len(doc.o) /\ doc.o[pos + 1][1] \notin Range(FIELDS)
    \/ pc = "scan" /\ pos = Len(doc.o)

\* A decode that has returned has one outcome, a record or an error and
\* never both; one that has not returned has none and can take a step.  An
\* error leaves the entries after it unread: the outcome is that of the
\* document cut after the failing entry.
OneOutcome ==
    /\ pc \in {"idle", "refused", "start", "scan", "done"}
    /\ pc = "done" <=> "pending" \notin DOMAIN result
    /\ pc = "done" =>
          /\ result.ok \in BOOLEAN
          /\ DOMAIN result = (IF result.ok THEN {"ok", "val"} ELSE {"ok", "err"})
          /\ result = Decode(doc)
    /\ pc \notin {"done", "refused"} => CanStep
    /\ pc = "scan" => pos <= Len(doc.o)
    /\ (pc = "done" /\ ~result.ok /\ doc.k = "obj") =>
          /\ pos <= Len(doc.o)
          /\ result = Decode(JObj(SubSeq(doc.o, 1, pos)))

\* Every step of a decode brings it nearer to its return; the entry whose
\* arm fails ends the decode at once, with that error and nothing else
\* changed; after an error nothing happens.
StopsAtError ==
    /\ (pass' = pass /\ pc # "done") => Remaining' < Remaining
    /\ pc = "done" =>
          \/ result.ok /\ pass' = pass + 1
          \/ returned' = result /\ UNCHANGED <<doc, pass, pc, pos, acc, result>>
    /\ (/\ pc = "scan"
        /\ pos < Len(doc.o)
        /\ ~NextKey(acc, doc.o[pos + 1][1], doc.o[pos + 1][2]).ok)
       => /\ pc' = "done"
          /\ result' = NextKey(acc, doc.o[pos + 1][1], doc.o[pos + 1][2])
          /\ pos' = pos + 1
          /\ acc' = acc

\* C20: every decode of a finite document terminates with exactly one
\* outcome, one record or one error; once an error is raised, in the scan or
\* in the required-field checks, the decode stops at once: no further key is
\* read and no partial record is returned.
C20_TerminatesWithOneOutcome == []OneOutcome /\ [][StopsAtError]_vars

C20_Witness ==
    /\ pc = "done"
    /\ pass = 1
    /\ ~result.ok
    /\ doc.k = "obj"
    /\ 1 < pos
    /\ pos < Len(doc.o)
    /\ acc # NoneSeen

\* The JSON kind of each recognized key's value.
ExpectedKind ==
    [id |-> "str", choices |-> "arr", created |-> "num", model |-> "str",
     service_tier |-> "str", system_fingerprint |-> "str", object |-> "str",
     usage |-> "obj", prompt_filter_results |-> "arr"]

\* The document is well formed but for the value of key, which occurs once.
OnlyKeyInDoubt(key) ==
    /\ input.k = "obj"
    /\ Cardinality(Occurrences(input.o, key)) = 1
    /\ WellFormedEntries(DropKey(input, key).o)
    /\ Required \ {key} \subseteq Keys(input.o)

\* A value of another kind than the key's; a null on an optional key is the
\* absent value of C4 and is left aside.
WrongKind(key, v) ==
    /\ v.k # ExpectedKind[key]
    /\ ~(key \in SimplyOptional /\ v.k = "null")

\* An integer of 0..2^32-1, in two limbs.
InU32Range(v) ==
    /\ v.k = "num"
    /\ 0 <= v.hi /\ v.hi < Limb
    /\ 0 <= v.lo /\ v.lo < Limb

WithIndex(elem, v) ==
    JObj([i \in DOMAIN elem.o |->
            IF elem.o[i][1] = "index" THEN <<"index", v>> ELSE elem.o[i]])

\* The document is well formed but for the index of its choices.
OnlyIndexInDoubt ==
    /\ OnlyChoicesInDoubt
    /\ \A i \in DOMAIN InputChoices :
          /\ Cardinality(Occurrences(InputChoices[i].o, "index")) = 1
          /\ De(ChatChoice, WithIndex(InputChoices[i], JInt(0))).ok

\* created and each choice's index are taken only as integers of
\* 0..2^32-1 and kept as given; any other number is rejected.
RangeChecked ==
    /\ OnlyKeyInDoubt("created") =>
          LET v == EntryValue(input.o, "created")
          IN  /\ result.ok <=> InU32Range(v)
              /\ result.ok => Ser(TU32, result.val.vanilla.created) = v
              /\ (v.k = "num" /\ ~InU32Range(v)) => result = Err("invalid_value", "u32")
              /\ v.k = "float" => result = Err("invalid_type", "u32")
    /\ OnlyIndexInDoubt =>
          /\ result.ok <=>
                \A i \in DOMAIN InputChoices :
                    InU32Range(EntryValue(InputChoices[i].o, "index"))
          /\ result.ok =>
                \A i \in DOMAIN InputChoices :
                    Ser(TU32, result.val.choices[i].vanilla.index)
                        = EntryValue(InputChoices[i].o, "index")

\* C21 as stated: a recognized key whose value is of the wrong JSON kind
\* fails the whole decode with a type error; created and each choice's index
\* are taken only as integers of 0..2^32-1, a negative, fractional or larger
\* value being rejected, never truncated or wrapped.
C21_TypeAndRange ==
    (Decoded /\ input.k = "obj") =>
        /\ \A key \in Range(FIELDS) :
              (OnlyKeyInDoubt(key) /\ WrongKind(key, EntryValue(input.o, key)))
              => (~result.ok /\ result.err.kind = "invalid_type")
        /\ RangeChecked

\* The keys whose value is a string, an integer or an array.
PlainKeys ==
    {"id", "choices", "created", "model", "system_fingerprint", "object",
     "prompt_filter_results"}

\* C21: a key whose value is a string, an integer or an array (id, model,
\* object, system_fingerprint, created, choices, prompt_filter_results) fails
\* the whole decode with a type error when its value is of another JSON
\* kind.  usage is also taken as the array of its three counts, and
\* service_tier as an object with the tier as its only key and null as its
\* value; any other value of the wrong kind fails them too.  created and
\* each choice's index are taken only as integers of 0..2^32-1, a negative,
\* fractional or larger value being rejected, never truncated or wrapped.
C21_TypeAndRangePlain ==
    (Decoded /\ input.k = "obj") =>
        /\ \A key \in PlainKeys :
              (OnlyKeyInDoubt(key) /\ WrongKind(key, EntryValue(input.o, key)))
              => (~result.ok /\ result.err.kind = "invalid_type")
        /\ (OnlyKeyInDoubt("usage") /\ WrongKind("usage", EntryValue(input.o, "usage"))) =>
              LET v == EntryValue(input.o, "usage")
              IN  /\ result.ok <=>
                        /\ v.k = "arr"
                        /\ Len(v.a) = 3
                        /\ \A i \in 1..3 : InU32Range(v.a[i])
                  /\ result.ok =>
                        Ser(CompletionUsage, result.val.vanilla.usage.v)
                            = JObj(<< <<"prompt_tokens", v.a[1]>>,
                                      <<"completion_tokens", v.a[2]>>,
                                      <<"total_tokens", v.a[3]>> >>)
        /\ (/\ OnlyKeyInDoubt("service_tier")
            /\ WrongKind("service_tier", EntryValue(input.o, "service_tier"))) =>
              LET v == EntryValue(input.o, "service_tier")
              IN  /\ result.ok <=>
                        /\ v.k = "obj"
                        /\ \E t \in {"scale", "default"} : v.o = << <<t, JNull>> >>
                  /\ result.ok => result.val.vanilla.service_tier = Some(v.o[1][1])
        /\ RangeChecked

C21_Witness ==
    /\ Decoded
    /\ OnlyKeyInDoubt("created")
    /\ EntryValue(input.o, "created") = JNum(Limb, 0)
    /\ result = Err("invalid_value", "u32")

\* create has returned.
Returned == "pending" \notin DOMAIN returned

\* C22: create refuses a request whose stream is Some(true) with the
\* InvalidArgument error "When stream is true, use Chat::create_stream" and
\* sends nothing; for a request whose stream is None or Some(false) it sends
\* exactly one POST to /chat/completions with the request and returns what
\* that call gives, record or error, unchanged.
C22_StreamGuard ==
    IF request.stream = Some(TRUE)
    THEN /\ sent = <<>>
         /\ pc \in {"idle", "refused"}
         /\ Returned <=> pc = "refused"
         /\ Returned =>
               returned = Err("InvalidArgument",
                              "When stream is true, use Chat::create_stream")
    ELSE /\ pc # "refused"
         /\ pc = "idle" => (sent = <<>> /\ ~Returned)
         /\ pc # "idle" =>
               sent = << [method |-> "POST", path |-> "/chat/completions",
                          body |-> request] >>
         /\ Returned =>
               /\ returned = Decode(input)
               /\ pass = 1 => (pc = "done" /\ returned = result)

C22_Witness ==
    /\ request.stream = Some(TRUE)
    /\ pc = "refused"
    /\ sent = <<>>
    /\ returned = Err("InvalidArgument", "When stream is true, use Chat::create_stream")

\* What the j-th entry of the document does on its own: a key of no field
\* fails, a key seen before fails as a duplicate whatever its value, and any
\* other fails when its value is not of its field's type.
EntryOutcome(entries, j) ==
    LET key == entries[j][1]
    IN  IF key \notin Range(FIELDS) THEN Err("unknown_variant", key)
        ELSE IF Repeated(entries, j) THEN Err("duplicate_field", key)
        ELSE De(NextValueTy[key], entries[j][2])

\* The required fields in the order of their checks.
RequiredOrder == <<"id", "choices", "created", "model", "object">>

\* C23: the keys are handled in document order and the first failing one
\* gives the error, a duplicate being reported before its second value is
\* decoded; a missing required field is reported only when the whole object
\* was scanned without error, and of several missing ones the first in the
\* order id, choices, created, model, object.
C23_ErrorPrecedence ==
    (Decoded /\ input.k = "obj") =>
        LET failing == {j \in DOMAIN input.o : ~EntryOutcome(input.o, j).ok}
            missing == {i \in DOMAIN RequiredOrder : RequiredOrder[i] \notin Keys(input.o)}
        IN  IF failing # {}
            THEN LET j == CHOOSE j \in failing : \A l \in failing : j <= l
                 IN  /\ result = EntryOutcome(input.o, j)
                     /\ pos = j
            ELSE /\ pos = Len(input.o)
                 /\ IF missing # {}
                    THEN LET i == CHOOSE i \in missing : \A l \in missing : i <= l
                         IN  result = Err("missing_field", RequiredOrder[i])
                    ELSE result.ok

C23_Witness ==
    /\ Decoded
    /\ input.k = "obj"
    /\ 1 < pos
    /\ pos < Len(input.o)
    /\ Repeated(input.o, pos)
    /\ input.o[pos][1] \in Required
    /\ ~De(NextValueTy[input.o[pos][1]], input.o[pos][2]).ok
    /\ result = Err("duplicate_field", input.o[pos][1])

\* C24: in every record returned by decode a choice's content_filter_results
\* is held in the merged choice alone: the copies of the base choice, in
\* choices[i].vanilla and in vanilla.choices[i], are unset, so the value is
\* never stored twice.
C24_SingleHome ==
    (pc = "done" /\ result.ok) =>
        /\ DOMAIN result.val.vanilla.choices = DOMAIN result.val.choices
        /\ \A i \in DOMAIN result.val.choices :
              /\ ~result.val.choices[i].vanilla.content_filter_results.some
              /\ ~result.val.vanilla.choices[i].content_filter_results.some
              /\ pass = 1 =>
                    (result.val.choices[i].content_filter_results.some
                        <=> CarriesExtension(InputChoices[i]))

C24_Witness ==
    /\ Decoded
    /\ result.ok
    /\ Len(result.val.choices) = MaxChoices
    /\ result.val.choices[1].content_filter_results.some
    /\ CarriesExtension(InputChoices[1])
    /\ ~result.val.choices[1].vanilla.content_filter_results.some
    /\ ~result.val.vanilla.choices[1].content_filter_results.some

====
